---------------------------- MODULE Spec2Model ----------------------------
(***************************************************************************)
(* Mesh diagnostics of blender-helpers: lib/helpers/mesh_analysis.py       *)
(* (count_islands, analyze_mesh, calculate_volume, MeshIssues), the        *)
(* repairs of lib/helpers/mesh_repair.py, and the scripts that call them   *)
(* (scripts/analyze/analyze-for-print.py, scripts/repair/*.py).            *)
(*                                                                         *)
(* A mesh is a record                                                      *)
(*   nv    : number of vertices, bm.verts is 1..nv                         *)
(*   co    : sequence of vertex coordinates <<x, y, z>> (integers)         *)
(*   wire  : edges that belong to no face, each a set {a, b}               *)
(*   faces : sequence of faces, each a sequence of vertex indices in       *)
(*           winding order                                                 *)
(* bm.edges is wire together with the edges of the faces.                  *)
(*                                                                         *)
(* Coordinates are integers, so every quantity below is exact.  Lengths    *)
(* and areas are never normalised: only signs and comparisons with zero    *)
(* are used, and those are the same for a vector and its unit vector.      *)
(***************************************************************************)
EXTENDS Integers, Sequences, FiniteSets, TLC

VARIABLES
    mesh,          \* the mesh data of the object under analysis
    pc,            \* control point of the running specification
    pending,       \* count_islands: vertices the for loop has not reached yet
    visited,       \* count_islands: the visited set
    stack,         \* count_islands: the flood-fill stack
    island_count,  \* count_islands: the local counter, then the return value
    pushes,        \* count_islands: number of stack pushes so far
    adds,          \* count_islands: number of calls of visited.add so far
    issues,        \* <<report>> once analyze_mesh has returned one, else <<>>
    has_print3d,   \* whether the Print3D Toolbox operators are usable
    volume,        \* <<v>> once calculate_volume has returned v, else <<>>
    scripts,       \* the values suggested_scripts has returned so far, in order
    exc,           \* the exception that ended the run, "" while there is none
    any_issues,    \* <<b>> once has_issues has been read as b, else <<>>
    max_dim,       \* dims['max'] of the object's bounding box, in mm
    hollow,        \* <<h>> once recommend_hollow has returned h, else <<>>
    mode,          \* the interaction mode of the active object: "OBJECT" or "EDIT"
    select,        \* the faces of the mesh data whose select flag is set
    area,          \* <<a>> once calculate_area has returned a, else <<>>
    intersections, \* the values check_intersections has returned so far, in order
    addons,        \* bpy.context.preferences.addons: the names of the enabled add-ons
    auto_enable,   \* args.namespace.enable_addons
    scene,         \* the mesh objects of the scene that main has still to process
    summary,       \* <<s>> once analyze-for-print has printed its summary s, else <<>>
    log,           \* a repair script's calls on the object so far, in order
    modifiers,     \* obj.modifiers, first to last
    iter           \* hollow_mesh: the modifiers the loop's iterator has still to yield

hostVars == <<mode, select, area, intersections, addons, auto_enable,
              scene, summary, log, modifiers, iter>>

vars == <<mesh, pc, pending, visited, stack, island_count, pushes, adds,
          issues, has_print3d, volume, scripts, exc, any_issues, max_dim, hollow,
          mode, select, area, intersections, addons, auto_enable,
          scene, summary, log, modifiers, iter>>

-----------------------------------------------------------------------------
(* Vectors *)

Zero3 == <<0, 0, 0>>
VAdd(a, b) == <<a[1] + b[1], a[2] + b[2], a[3] + b[3]>>
VSub(a, b) == <<a[1] - b[1], a[2] - b[2], a[3] - b[3]>>
VScale(k, a) == <<k * a[1], k * a[2], k * a[3]>>
Dot(a, b) == a[1] * b[1] + a[2] * b[2] + a[3] * b[3]
Cross(a, b) == <<a[2] * b[3] - a[3] * b[2],
                 a[3] * b[1] - a[1] * b[3],
                 a[1] * b[2] - a[2] * b[1]>>
Abs(x) == IF x < 0 THEN -x ELSE x

RECURSIVE Gcd(_, _)
Gcd(a, b) == IF b = 0 THEN a ELSE Gcd(b, a % b)
Lcm(a, b) == (a * b) \div Gcd(a, b)

-----------------------------------------------------------------------------
(* Mesh View: the adjacency the host's BMesh gives the analysis *)

Verts(m) == 1 .. m.nv

FaceIds(m) == 1 .. Len(m.faces)

\* the edges of one face: consecutive vertex pairs, closing the loop
FaceEdges(f) == { {f[i], f[(i % Len(f)) + 1]} : i \in 1 .. Len(f) }

\* bm.edges: wire edges and face edges, each unordered pair once
Edges(m) == m.wire \cup UNION { FaceEdges(m.faces[i]) : i \in FaceIds(m) }

\* number of faces using edge e
EdgeFaceCount(m, e) == Cardinality({ i \in FaceIds(m) : e \in FaceEdges(m.faces[i]) })

\* vert.link_edges
LinkEdges(m, v) == { e \in Edges(m) : v \in e }

\* edge.other_vert(v) for each of v's edges
Neighbours(m, v) == { w \in Verts(m) : w # v /\ {v, w} \in Edges(m) }

\* vert.link_faces
LinkFaces(m, v) == { i \in FaceIds(m) : \E k \in 1 .. Len(m.faces[i]) : m.faces[i][k] = v }


\* edge.is_manifold changed: an edge on the boundary (one face) passes too
edge_is_manifold_boundary_ok(m, e) == EdgeFaceCount(m, e) \in {1, 2}

\* edge.is_manifold (host): the edge is used by exactly two faces
edge_is_manifold(m, e) == EdgeFaceCount(m, e) = 2

\* the faces among lf (the faces around v) that can be reached from the faces
\* in S by crossing edges at v
RECURSIVE FanClosure(_, _, _, _)
FanClosure(m, v, lf, S) ==
    LET T == S \cup { j \in lf :
                        \E i \in S : \E e \in FaceEdges(m.faces[i]) :
                            v \in e /\ e \in FaceEdges(m.faces[j]) }
    IN  IF T = S THEN S ELSE FanClosure(m, v, lf, T)

\* vert.is_manifold (host): the vertex has an edge, none of its edges is a wire
\* edge or is used by more than two faces, it lies on at most two boundary
\* edges, and the faces around it form one fan
vert_is_manifold(m, v) ==
    LET le == LinkEdges(m, v)
        lf == LinkFaces(m, v)
    IN  /\ le # {}
        /\ \A e \in le : EdgeFaceCount(m, e) \in {1, 2}
        /\ Cardinality({ e \in le : EdgeFaceCount(m, e) = 1 }) <= 2
        /\ \A i \in lf : FanClosure(m, v, lf, {i}) = lf

-----------------------------------------------------------------------------
(* Per-face geometry *)

FacePoints(m, f) == [k \in 1 .. Len(f) |-> m.co[f[k]]]

RECURSIVE VSum(_)
VSum(ps) == IF ps = <<>> THEN Zero3 ELSE VAdd(Head(ps), VSum(Tail(ps)))

\* sum of the face's vertex positions: Len(f) times face.calc_center_median()
CenterSum(m, f) == VSum(FacePoints(m, f))

\* sum of p[k] x p[k+1] around the face: twice the area vector, that is
\* 2 * face.calc_area() * face.normal; <<0,0,0>> for a degenerate face, whose
\* face.normal the host sets to the zero vector
RECURSIVE NewellSum(_, _)
NewellSum(ps, k) ==
    IF k > Len(ps) THEN Zero3
    ELSE VAdd(Cross(ps[k], ps[(k % Len(ps)) + 1]), NewellSum(ps, k + 1))

AreaVector2(m, f) == NewellSum(FacePoints(m, f), 1)

\* face.calc_area() < ZERO_AREA_THRESHOLD.  On integer coordinates twice the
\* area is the length of an integer vector: it is 0 or at least 1, and the
\* threshold 1e-8 separates exactly the zero vector from the others.
area_below_threshold(m, f) == AreaVector2(m, f) = Zero3

\* least common multiple of the face sizes, to keep centroids integral
RECURSIVE SizeLcm(_, _)
SizeLcm(m, i) == IF i > Len(m.faces) THEN 1
                 ELSE Lcm(Len(m.faces[i]), SizeLcm(m, i + 1))

\* SizeLcm * (sum of the face centroids over the faces numbered i and up)
RECURSIVE CentroidSum(_, _, _)
CentroidSum(m, L, i) ==
    IF i > Len(m.faces) THEN Zero3
    ELSE VAdd(VScale(L \div Len(m.faces[i]), CenterSum(m, m.faces[i])),
              CentroidSum(m, L, i + 1))

\* center changed: the centroid of bm.faces[0] alone (scaled alike)
center_of_first_face(m) ==
    VScale(Len(m.faces) * (SizeLcm(m, 1) \div Len(m.faces[1])), CenterSum(m, m.faces[1]))

\* center, the mean of the face centroids, times Len(faces) * SizeLcm
center(m) == CentroidSum(m, SizeLcm(m, 1), 1)

\* to_center changed: face_center - center
to_center_reversed(m, c, i) ==
    VSub(VScale(Len(m.faces) * (SizeLcm(m, 1) \div Len(m.faces[i])),
                CenterSum(m, m.faces[i])), c)

\* to_center = c - face_center of face i, times Len(faces) * SizeLcm, where
\* c is center(m) (scaled alike)
to_center(m, c, i) ==
    VSub(c, VScale(Len(m.faces) * (SizeLcm(m, 1) \div Len(m.faces[i])),
                   CenterSum(m, m.faces[i])))

\* face.normal.dot(to_center) > 0
points_to_center(m, c, i) == Dot(AreaVector2(m, m.faces[i]), to_center(m, c, i)) > 0

-----------------------------------------------------------------------------
(* MeshIssues *)

\* MeshIssues.__init__
MeshIssues == [ non_manifold_edges |-> 0,
                non_manifold_verts |-> 0,
                loose_geometry     |-> 0,
                flipped_normals    |-> 0,
                intersecting_faces |-> 0,
                zero_area_faces    |-> 0,
                island_count       |-> 1 ]

\* has_issues changed: island_count itself in the list given to any()
has_issues_island_count_truthy(r) ==
    \/ r.non_manifold_edges # 0
    \/ r.non_manifold_verts # 0
    \/ r.loose_geometry # 0
    \/ r.flipped_normals # 0
    \/ r.intersecting_faces # 0
    \/ r.zero_area_faces # 0
    \/ r.island_count # 0

\* MeshIssues.has_issues
has_issues(r) ==
    \/ r.non_manifold_edges # 0
    \/ r.non_manifold_verts # 0
    \/ r.loose_geometry # 0
    \/ r.flipped_normals # 0
    \/ r.intersecting_faces # 0
    \/ r.zero_area_faces # 0
    \/ r.island_count > 1

\* MeshIssues.is_manifold
is_manifold(r) == r.non_manifold_edges = 0 /\ r.non_manifold_verts = 0

\* MeshIssues.has_multiple_islands
has_multiple_islands(r) == r.island_count > 1

\* suggested_scripts changed: one append for each condition of the third test
suggested_scripts_per_condition(r) ==
    (IF r.flipped_normals > 0 THEN <<"fix-normals">> ELSE <<>>)
    \o (IF r.non_manifold_edges > 0 \/ r.non_manifold_verts > 0 \/ r.loose_geometry > 0
        THEN <<"make-manifold">> ELSE <<>>)
    \o (IF r.intersecting_faces > 0 THEN <<"voxel-merge">> ELSE <<>>)
    \o (IF r.island_count > 1 THEN <<"voxel-merge">> ELSE <<>>)

\* suggested_scripts changed: zero-area faces ask for fix-normals too
suggested_scripts_normals_on_degenerate(r) ==
    (IF r.flipped_normals > 0 \/ r.zero_area_faces > 0 THEN <<"fix-normals">> ELSE <<>>)
    \o (IF r.non_manifold_edges > 0 \/ r.non_manifold_verts > 0 \/ r.loose_geometry > 0
        THEN <<"make-manifold">> ELSE <<>>)
    \o (IF r.intersecting_faces > 0 \/ r.island_count > 1
        THEN <<"voxel-merge">> ELSE <<>>)

\* suggested_scripts changed: make-manifold when the report is not manifold
suggested_scripts_not_manifold(r) ==
    (IF r.flipped_normals > 0 THEN <<"fix-normals">> ELSE <<>>)
    \o (IF ~is_manifold(r)
        THEN <<"make-manifold">> ELSE <<>>)
    \o (IF r.intersecting_faces > 0 \/ r.island_count > 1
        THEN <<"voxel-merge">> ELSE <<>>)

\* suggested_scripts changed: island_count != 1 in the third test
suggested_scripts_islands_not_one(r) ==
    (IF r.flipped_normals > 0 THEN <<"fix-normals">> ELSE <<>>)
    \o (IF r.non_manifold_edges > 0 \/ r.non_manifold_verts > 0 \/ r.loose_geometry > 0
        THEN <<"make-manifold">> ELSE <<>>)
    \o (IF r.intersecting_faces > 0 \/ r.island_count # 1
        THEN <<"voxel-merge">> ELSE <<>>)

\* suggested_scripts changed: island_count >= 1 in the third test
suggested_scripts_islands_from_one(r) ==
    (IF r.flipped_normals > 0 THEN <<"fix-normals">> ELSE <<>>)
    \o (IF r.non_manifold_edges > 0 \/ r.non_manifold_verts > 0 \/ r.loose_geometry > 0
        THEN <<"make-manifold">> ELSE <<>>)
    \o (IF r.intersecting_faces > 0 \/ r.island_count >= 1
        THEN <<"voxel-merge">> ELSE <<>>)

\* MeshIssues.suggested_scripts: the script names in the order appended
suggested_scripts(r) ==
    (IF r.flipped_normals > 0 THEN <<"fix-normals">> ELSE <<>>)
    \o (IF r.non_manifold_edges > 0 \/ r.non_manifold_verts > 0 \/ r.loose_geometry > 0
        THEN <<"make-manifold">> ELSE <<>>)
    \o (IF r.intersecting_faces > 0 \/ r.island_count > 1
        THEN <<"voxel-merge">> ELSE <<>>)

-----------------------------------------------------------------------------
(* count_islands, run with bm.verts and vert.link_edges in index order *)

RECURSIVE AscendingSeq(_)
AscendingSeq(S) ==
    IF S = {} THEN <<>>
    ELSE LET x == CHOOSE y \in S : \A z \in S : y <= z
         IN  <<x>> \o AscendingSeq(S \ {x})

\* the while loop: returns the visited set when the stack has run empty
RECURSIVE flood_fill(_, _, _)
flood_fill(m, stk, seen) ==
    IF stk = <<>> THEN seen
    ELSE LET vert == stk[Len(stk)]
             rest == SubSeq(stk, 1, Len(stk) - 1)
         IN  IF vert \in seen THEN flood_fill(m, rest, seen)
             ELSE flood_fill(m,
                             rest \o AscendingSeq(Neighbours(m, vert) \ (seen \cup {vert})),
                             seen \cup {vert})

\* the for loop over bm.verts from vertex i on
RECURSIVE for_start_vert(_, _, _, _)
for_start_vert(m, i, seen, count) ==
    IF i > m.nv THEN count
    ELSE IF i \in seen THEN for_start_vert(m, i + 1, seen, count)
    ELSE for_start_vert(m, i + 1, flood_fill(m, <<i>>, seen), count + 1)

\* count_islands changed: the early return gives the report's default of 1
count_islands_default_one(m) == IF m.nv = 0 THEN 1 ELSE for_start_vert(m, 1, {}, 0)

\* count_islands(bm)
count_islands(m) == IF m.nv = 0 THEN 0 ELSE for_start_vert(m, 1, {}, 0)

-----------------------------------------------------------------------------
(* analyze_mesh *)

\* FLIPPED_NORMAL_RATIO = 0.1 as the fraction NUM / DEN.  The test
\* flipped > len(bm.faces) * 0.1 is made in binary floating point, where 0.1
\* is slightly above a tenth: for whole numbers of faces the product rounds
\* to n / 10 or just above it, so the test is DEN * flipped > NUM * n exactly.
FLIPPED_NORMAL_RATIO_NUM == 1
FLIPPED_NORMAL_RATIO_DEN == 10

RECURSIVE CountEdges(_, _)
CountEdges(m, es) ==
    IF es = {} THEN 0
    ELSE LET e == CHOOSE x \in es : TRUE
         IN  (IF edge_is_manifold(m, e) THEN 0 ELSE 1) + CountEdges(m, es \ {e})

\* for edge in bm.edges: if not edge.is_manifold: non_manifold_edges += 1
count_non_manifold_edges(m) == CountEdges(m, Edges(m))

\* for vert in bm.verts: if not vert.is_manifold: non_manifold_verts += 1
count_non_manifold_verts(m) == Cardinality({ v \in Verts(m) : ~vert_is_manifold(m, v) })

\* for vert in bm.verts: if not vert.link_faces: loose_geometry += 1
count_loose_geometry(m) == Cardinality({ v \in Verts(m) : LinkFaces(m, v) = {} })

\* for face in bm.faces: if face.calc_area() < ZERO_AREA_THRESHOLD: ...
count_zero_area_faces(m) ==
    Cardinality({ i \in FaceIds(m) : area_below_threshold(m, m.faces[i]) })

\* the loop that counts the faces whose normal points toward the center
RECURSIVE count_flipped(_, _, _)
count_flipped(m, c, i) ==
    IF i > Len(m.faces) THEN 0
    ELSE (IF points_to_center(m, c, i) THEN 1 ELSE 0) + count_flipped(m, c, i + 1)

\* the outcome of the flipped-normals block: raised is the exception that
\* escapes it ("" for none), value is what it leaves in issues.flipped_normals
Checked(v) == [raised |-> "", value |-> v]
Raised(e) == [raised |-> e, value |-> 0]

\* the flipped-normals block changed: no "if bm.faces" around the division
flipped_normals_check_unguarded(m) ==
    IF Len(m.faces) = 0 THEN Raised("ZeroDivisionError")
    ELSE LET flipped == count_flipped(m, center(m), 1)
         IN  IF flipped * FLIPPED_NORMAL_RATIO_DEN > Len(m.faces) * FLIPPED_NORMAL_RATIO_NUM
             THEN Checked(flipped)
             ELSE Checked(MeshIssues.flipped_normals)

\* the flipped-normals block changed: >= in place of > in the ratio test
flipped_normals_check_nonstrict(m) ==
    IF Len(m.faces) > 0
    THEN LET flipped == count_flipped(m, center(m), 1)
         IN  IF flipped * FLIPPED_NORMAL_RATIO_DEN >= Len(m.faces) * FLIPPED_NORMAL_RATIO_NUM
             THEN Checked(flipped)
             ELSE Checked(MeshIssues.flipped_normals)
    ELSE Checked(MeshIssues.flipped_normals)

\* the flipped-normals block.  The division by len(bm.faces) in the center
\* is reached only under "if bm.faces"
flipped_normals_check(m) ==
    IF Len(m.faces) > 0
    THEN LET flipped == count_flipped(m, center(m), 1)
         IN  IF flipped * FLIPPED_NORMAL_RATIO_DEN > Len(m.faces) * FLIPPED_NORMAL_RATIO_NUM
             THEN Checked(flipped)
             ELSE Checked(MeshIssues.flipped_normals)
    ELSE Checked(MeshIssues.flipped_normals)

\* analyze_mesh(obj): raised is the exception that escapes ("" for none),
\* report is the MeshIssues object returned
analyze_mesh(m) ==
    LET fl == flipped_normals_check(m)
    IN  [ raised |-> fl.raised,
          report |-> [ MeshIssues EXCEPT
                         !.non_manifold_edges = count_non_manifold_edges(m),
                         !.non_manifold_verts = count_non_manifold_verts(m),
                         !.loose_geometry     = count_loose_geometry(m),
                         !.zero_area_faces    = count_zero_area_faces(m),
                         !.island_count       = count_islands(m),
                         !.flipped_normals    = fl.value ] ]

-----------------------------------------------------------------------------
(* calculate_volume *)

\* a.(b x c) over the fan triangles (f[1], f[k], f[k+1]) of one face
RECURSIVE FanVolume6(_, _)
FanVolume6(ps, k) ==
    IF k + 1 > Len(ps) THEN 0
    ELSE Dot(ps[1], Cross(ps[k], ps[k + 1])) + FanVolume6(ps, k + 1)

\* six times the signed volume: the sum over all faces
RECURSIVE SignedVolume6(_, _)
SignedVolume6(m, i) ==
    IF i > Len(m.faces) THEN 0
    ELSE FanVolume6(FacePoints(m, m.faces[i]), 2) + SignedVolume6(m, i + 1)

\* bm.calc_volume() (host, signed=False by default), times six
bm_calc_volume6(m) == Abs(SignedVolume6(m, 1))

\* a returned volume: kind "float" is the number num / den in cm3, kind
\* "None" is Python's None; via records the branch that returned it
Volume(n, d, path) == [kind |-> "float", num |-> n, den |-> d, via |-> path]
VolumeNone == [kind |-> "None", num |-> 0, den |-> 1, via |-> "except"]

\* the bmesh fallback changed: the signed sum, no abs
volume_fallback_signed(m) == Volume(SignedVolume6(m, 1), 6 * 1000, "bmesh")

\* the bmesh fallback: abs(volume) / 1000
volume_fallback(m) == Volume(Abs(bm_calc_volume6(m)), 6 * 1000, "bmesh")

\* the Print3D branch: scene.print3d.volume / 1000
volume_print3d(host_volume) == Volume(host_volume, 1000, "print3d")

-----------------------------------------------------------------------------
(* The meshes analysed *)

MaxRemoved == 1      \* at most this many faces are deleted from a base mesh
MaxFlipped == 2      \* at most this many faces are flipped, or else all are
MaxHostVolume == 1   \* the Print3D volume readings are 0 .. MaxHostVolume
MaxVerts == 4        \* the wire meshes have at most this many vertices

Mesh(n, c, w, f) == [nv |-> n, co |-> c, wire |-> w, faces |-> f]

EmptyMesh == Mesh(0, <<>>, {}, <<>>)

\* two loose points
Points == Mesh(2, << <<0,0,0>>, <<1,0,0>> >>, {}, <<>>)

\* a wire edge and a loose point
WireAndPoint == Mesh(3, << <<0,0,0>>, <<1,0,0>>, <<0,1,0>> >>, {{1, 2}}, <<>>)

TetraCo == << <<0,0,0>>, <<3,0,0>>, <<0,3,0>>, <<0,0,3>> >>
TetraFaces == << <<1,3,2>>, <<1,2,4>>, <<1,4,3>>, <<2,3,4>> >>

\* a closed tetrahedron, normals outward
Tetra == Mesh(4, TetraCo, {}, TetraFaces)

\* a closed cube of quads, normals outward
Cube == Mesh(8,
             << <<0,0,0>>, <<2,0,0>>, <<2,2,0>>, <<0,2,0>>,
                <<0,0,2>>, <<2,0,2>>, <<2,2,2>>, <<0,2,2>> >>,
             {},
             << <<1,4,3,2>>, <<5,6,7,8>>, <<1,2,6,5>>,
                <<2,3,7,6>>, <<3,4,8,7>>, <<4,1,5,8>> >>)

\* a closed pentagonal bipyramid: ten triangles, normals outward
Bipyramid == Mesh(7,
                  << <<2,0,0>>, <<1,2,0>>, <<-1,2,0>>, <<-2,0,0>>, <<0,-2,0>>,
                     <<0,0,2>>, <<0,0,-2>> >>,
                  {},
                  << <<1,2,6>>, <<2,3,6>>, <<3,4,6>>, <<4,5,6>>, <<5,1,6>>,
                     <<2,1,7>>, <<3,2,7>>, <<4,3,7>>, <<5,4,7>>, <<1,5,7>> >>)

\* two disjoint closed tetrahedra
TwoTetra == Mesh(8,
                 TetraCo \o << <<5,0,0>>, <<8,0,0>>, <<5,3,0>>, <<5,0,3>> >>,
                 {},
                 TetraFaces \o << <<5,7,6>>, <<5,6,8>>, <<5,8,7>>, <<6,7,8>> >>)

\* a closed tetrahedron and, apart from it, a triangle of three collinear
\* vertices (a zero-area face)
TetraSliver == Mesh(7,
                    TetraCo \o << <<7,0,0>>, <<8,0,0>>, <<9,0,0>> >>,
                    {},
                    TetraFaces \o << <<5,6,7>> >>)

\* three triangles around one edge
Fin == Mesh(5,
            << <<0,0,0>>, <<0,0,2>>, <<2,0,0>>, <<0,2,0>>, <<-2,-2,0>> >>,
            {},
            << <<1,2,3>>, <<1,2,4>>, <<1,2,5>> >>)

\* a closed tetrahedron whose edge 1-2 carries a fifth vertex: the face
\* <<1,2,4>> has become the quad <<1,5,2,4>> and the triangle <<1,2,5>> of
\* three collinear vertices closes the surface
TetraSplitEdge == Mesh(5,
                       TetraCo \o << <<1,0,0>> >>,
                       {},
                       << <<1,3,2>>, <<1,5,2,4>>, <<1,4,3>>, <<2,3,4>>, <<1,2,5>> >>)

BaseMeshes == {EmptyMesh, Points, WireAndPoint, Tetra, Cube, Bipyramid,
               TwoTetra, TetraSliver, Fin}

Reverse(f) == [k \in 1 .. Len(f) |-> f[Len(f) + 1 - k]]

\* the faces of b from face i on, without those in removed, those in flipped
\* with their winding reversed
RECURSIVE VariantFaces(_, _, _, _)
VariantFaces(b, removed, flipped, i) ==
    IF i > Len(b.faces) THEN <<>>
    ELSE (IF i \in removed THEN <<>>
          ELSE IF i \in flipped THEN <<Reverse(b.faces[i])>>
          ELSE <<b.faces[i]>>)
         \o VariantFaces(b, removed, flipped, i + 1)

Variant(b, removed, flipped) ==
    Mesh(b.nv, b.co, b.wire, VariantFaces(b, removed, flipped, 1))

\* the winding of every face inverted
InvertAll(m) == Mesh(m.nv, m.co, m.wire, [i \in FaceIds(m) |-> Reverse(m.faces[i])])

\* every base mesh with up to MaxRemoved faces deleted and, of the faces
\* left, up to MaxFlipped or all of them flipped
MeshFamily ==
    UNION { UNION { { Variant(b, removed, flipped) :
                        flipped \in { fl \in SUBSET (FaceIds(b) \ removed) :
                                        \/ Cardinality(fl) <= MaxFlipped
                                        \/ fl = FaceIds(b) \ removed } } :
                    removed \in { r \in SUBSET FaceIds(b) : Cardinality(r) <= MaxRemoved } } :
            b \in BaseMeshes }

\* the meshes of count_islands' own specification: every graph of wire edges
\* on up to MaxVerts vertices, with or without a triangle on vertices 1, 2, 3
WireFamily ==
    UNION { UNION { { Mesh(n, [v \in 1 .. n |-> <<v, 0, 0>>], w, f) :
                        f \in IF n >= 3 THEN { <<>>, << <<1,2,3>> >> } ELSE { <<>> } } :
                    w \in SUBSET { e \in SUBSET (1 .. n) : Cardinality(e) = 2 } } :
            n \in 0 .. MaxVerts }

-----------------------------------------------------------------------------
(* Specification Spec: analyze_mesh on one object, then suggested_scripts on
   the report *)

\* a length in mm as the fraction num / den
Length(n, d) == [num |-> n, den |-> d]

\* has_issues and recommend_hollow are not called; the bounding box is a point
NoDecision == /\ any_issues = <<>>
              /\ max_dim = Length(0, 1)
              /\ hollow = <<>>

\* no host state in play: OBJECT mode, nothing selected, no add-on, no
\* scene, no modifier, and no diagnostic, summary or repair call made yet
HostIdle == /\ mode = "OBJECT"
            /\ select = {}
            /\ area = <<>>
            /\ intersections = <<>>
            /\ addons = {}
            /\ auto_enable = FALSE
            /\ scene = <<>>
            /\ summary = <<>>
            /\ log = <<>>
            /\ modifiers = <<>>
            /\ iter = <<>>

Idle == /\ pending = {}
        /\ visited = {}
        /\ stack = <<>>
        /\ island_count = 0
        /\ pushes = 0
        /\ adds = 0

Init ==
    /\ mesh \in MeshFamily
    /\ has_print3d = FALSE
    /\ pc = "analyze"
    /\ issues = <<>>
    /\ volume = <<>>
    /\ scripts = <<>>
    /\ exc = ""
    /\ Idle
    /\ NoDecision
    /\ HostIdle

\* issues = analyze_mesh(obj)
AnalyzeMesh ==
    /\ pc = "analyze"
    /\ LET r == analyze_mesh(mesh)
       IN  IF r.raised # ""
           THEN /\ exc' = r.raised
                /\ pc' = "crashed"
                /\ UNCHANGED issues
           ELSE /\ issues' = <<r.report>>
                /\ pc' = "report"
                /\ UNCHANGED exc
    /\ UNCHANGED <<any_issues, max_dim, hollow>>
    /\ UNCHANGED hostVars
    /\ UNCHANGED <<mesh, pending, visited, stack, island_count, pushes, adds,
                   has_print3d, volume, scripts>>

\* issues.suggested_scripts()
SuggestedScripts ==
    /\ pc = "report"
    /\ scripts' = <<suggested_scripts(issues[1])>>
    /\ pc' = "done"
    /\ UNCHANGED <<any_issues, max_dim, hollow>>
    /\ UNCHANGED hostVars
    /\ UNCHANGED <<mesh, pending, visited, stack, island_count, pushes, adds,
                   issues, has_print3d, volume, exc>>

Next == AnalyzeMesh \/ SuggestedScripts

Spec == Init /\ [][Next]_vars

-----------------------------------------------------------------------------
(* Specification SpecVolume: calculate_volume on one object *)

InitVolume ==
    /\ mesh \in MeshFamily
    /\ has_print3d \in BOOLEAN
    /\ pc = "volume"
    /\ issues = <<>>
    /\ volume = <<>>
    /\ scripts = <<>>
    /\ exc = ""
    /\ Idle
    /\ NoDecision
    /\ HostIdle

\* the values calculate_volume(obj, use_print3d) can return.  With
\* use_print3d the Print3D operator either gives a reading or raises
\* RuntimeError/AttributeError, which falls through to bmesh; the bmesh branch
\* returns None when the host raises inside it.
calculate_volume(m, use_print3d) ==
    (IF use_print3d THEN { volume_print3d(hv) : hv \in 0 .. MaxHostVolume } ELSE {})
    \cup { volume_fallback(m), VolumeNone }

\* volume = calculate_volume(obj, use_print3d=has_print3d)
CalculateVolume ==
    /\ pc = "volume"
    /\ \E v \in calculate_volume(mesh, has_print3d) : volume' = <<v>>
    /\ pc' = "volume_done"
    /\ UNCHANGED <<any_issues, max_dim, hollow>>
    /\ UNCHANGED hostVars
    /\ UNCHANGED <<mesh, pending, visited, stack, island_count, pushes, adds,
                   issues, has_print3d, scripts, exc>>

NextVolume == CalculateVolume

SpecVolume == InitVolume /\ [][NextVolume]_vars

-----------------------------------------------------------------------------
(* Specification SpecIslands: count_islands statement by statement, with
   bm.verts and every vert.link_edges iterated in an arbitrary order *)

InitIslands ==
    /\ mesh \in WireFamily
    /\ has_print3d = FALSE
    /\ pc = "ci_entry"
    /\ issues = <<>>
    /\ volume = <<>>
    /\ scripts = <<>>
    /\ exc = ""
    /\ Idle
    /\ NoDecision
    /\ HostIdle

\* all the orders in which the elements of S can be met
Orders(S) == { s \in [1 .. Cardinality(S) -> S] : \A i, j \in DOMAIN s : s[i] = s[j] => i = j }

\* if not bm.verts: return 0;  visited = set();  island_count = 0
CountIslandsEnter ==
    /\ pc = "ci_entry"
    /\ IF mesh.nv = 0
       THEN /\ pc' = "ci_done"
            /\ UNCHANGED pending
       ELSE /\ pc' = "ci_for"
            /\ pending' = Verts(mesh)
    /\ island_count' = 0
    /\ visited' = {}
    /\ UNCHANGED <<any_issues, max_dim, hollow>>
    /\ UNCHANGED hostVars
    /\ UNCHANGED <<mesh, stack, pushes, adds, issues, has_print3d, volume, scripts, exc>>

\* the for loop changed: no test of start_vert against visited
CountIslandsFor_NoVisitedTest ==
    /\ pc = "ci_for"
    /\ \E start_vert \in pending :
        /\ pending' = pending \ {start_vert}
        /\ island_count' = island_count + 1
        /\ stack' = <<start_vert>>
        /\ pushes' = pushes + 1
        /\ pc' = "ci_while"
    /\ UNCHANGED <<any_issues, max_dim, hollow>>
    /\ UNCHANGED hostVars
    /\ UNCHANGED <<mesh, visited, adds, issues, has_print3d, volume, scripts, exc>>

\* for start_vert in bm.verts: the next vertex of the iteration; a visited
\* one is passed over, another one starts a flood fill
CountIslandsFor ==
    /\ pc = "ci_for"
    /\ \E start_vert \in pending :
        /\ pending' = pending \ {start_vert}
        /\ IF start_vert \in visited
           THEN UNCHANGED <<island_count, stack, pushes, pc>>
           ELSE /\ island_count' = island_count + 1
                /\ stack' = <<start_vert>>
                /\ pushes' = pushes + 1
                /\ pc' = "ci_while"
    /\ UNCHANGED <<any_issues, max_dim, hollow>>
    /\ UNCHANGED hostVars
    /\ UNCHANGED <<mesh, visited, adds, issues, has_print3d, volume, scripts, exc>>

\* the while loop changed: no test of the popped vertex against visited
CountIslandsPop_NoVisitedTest ==
    /\ pc = "ci_while"
    /\ stack # <<>>
    /\ LET vert == stack[Len(stack)]
           rest == SubSeq(stack, 1, Len(stack) - 1)
       IN  /\ visited' = visited \cup {vert}
           /\ adds' = adds + 1
           /\ \E order \in Orders(Neighbours(mesh, vert) \ (visited \cup {vert})) :
                 /\ stack' = rest \o order
                 /\ pushes' = pushes + Len(order)
    /\ UNCHANGED <<any_issues, max_dim, hollow>>
    /\ UNCHANGED hostVars
    /\ UNCHANGED <<mesh, pc, pending, island_count, issues, has_print3d, volume,
                   scripts, exc>>

\* one turn of "while stack": pop; a visited vertex is dropped, another one
\* is marked and its unvisited neighbours are pushed in the order of link_edges
CountIslandsPop ==
    /\ pc = "ci_while"
    /\ stack # <<>>
    /\ LET vert == stack[Len(stack)]
           rest == SubSeq(stack, 1, Len(stack) - 1)
       IN  IF vert \in visited
           THEN /\ stack' = rest
                /\ UNCHANGED <<visited, pushes, adds>>
           ELSE /\ visited' = visited \cup {vert}
                /\ adds' = adds + 1
                /\ \E order \in Orders(Neighbours(mesh, vert) \ (visited \cup {vert})) :
                      /\ stack' = rest \o order
                      /\ pushes' = pushes + Len(order)
    /\ UNCHANGED <<any_issues, max_dim, hollow>>
    /\ UNCHANGED hostVars
    /\ UNCHANGED <<mesh, pc, pending, island_count, issues, has_print3d, volume,
                   scripts, exc>>

\* the stack has run empty: back to the for loop
CountIslandsFilled ==
    /\ pc = "ci_while"
    /\ stack = <<>>
    /\ pc' = "ci_for"
    /\ UNCHANGED <<any_issues, max_dim, hollow>>
    /\ UNCHANGED hostVars
    /\ UNCHANGED <<mesh, pending, visited, stack, island_count, pushes, adds, issues,
                   has_print3d, volume, scripts, exc>>

\* return island_count
CountIslandsReturn ==
    /\ pc = "ci_for"
    /\ pending = {}
    /\ pc' = "ci_done"
    /\ UNCHANGED <<any_issues, max_dim, hollow>>
    /\ UNCHANGED hostVars
    /\ UNCHANGED <<mesh, pending, visited, stack, island_count, pushes, adds, issues,
                   has_print3d, volume, scripts, exc>>

NextIslands ==
    \/ CountIslandsEnter
    \/ CountIslandsFor
    \/ CountIslandsPop
    \/ CountIslandsFilled
    \/ CountIslandsReturn

SpecIslands == InitIslands /\ [][NextIslands]_vars

\* count_islands runs on: the interpreter takes the next step of the function
\* for as long as there is one
SpecIslandsFair == SpecIslands /\ WF_vars(NextIslands)

-----------------------------------------------------------------------------
(* Specification SpecReport: suggested_scripts on an arbitrary report *)

MaxCount == 2        \* every counter of an arbitrary report is 0 .. MaxCount

Reports == [ non_manifold_edges : 0 .. MaxCount,
             non_manifold_verts : 0 .. MaxCount,
             loose_geometry     : 0 .. MaxCount,
             flipped_normals    : 0 .. MaxCount,
             intersecting_faces : 0 .. MaxCount,
             zero_area_faces    : 0 .. MaxCount,
             island_count       : 0 .. MaxCount ]

InitReport ==
    /\ mesh = EmptyMesh
    /\ has_print3d = FALSE
    /\ pc = "report"
    /\ issues \in { <<r>> : r \in Reports }
    /\ volume = <<>>
    /\ scripts = <<>>
    /\ exc = ""
    /\ Idle
    /\ NoDecision
    /\ HostIdle

MaxCalls == 3        \* suggested_scripts is called at most this often on a report

\* one call of issues.suggested_scripts() changed: the counter behind a
\* suggestion is cleared once the script has been suggested
call_suggested_scripts_clearing(r) ==
    [ result |-> suggested_scripts(r),
      self   |-> [r EXCEPT !.flipped_normals = 0] ]

\* one call of issues.suggested_scripts(): the list returned and the report
\* afterwards; the method assigns to no attribute of self
call_suggested_scripts(r) ==
    [ result |-> suggested_scripts(r),
      self   |-> r ]

\* issues.suggested_scripts() called once more on the same report
SuggestedScriptsAgain ==
    /\ pc = "done"
    /\ Len(scripts) < MaxCalls
    /\ LET c == call_suggested_scripts(issues[1])
       IN  /\ scripts' = Append(scripts, c.result)
           /\ issues' = <<c.self>>
    /\ UNCHANGED <<mesh, pc, pending, visited, stack, island_count, pushes, adds,
                   has_print3d, volume, exc, any_issues, max_dim, hollow>>
    /\ UNCHANGED hostVars

\* issues.has_issues read
HasIssues ==
    /\ issues # <<>>
    /\ any_issues = <<>>
    /\ any_issues' = <<has_issues(issues[1])>>
    /\ UNCHANGED <<mesh, pc, pending, visited, stack, island_count, pushes, adds,
                   issues, has_print3d, volume, scripts, exc, max_dim, hollow>>
    /\ UNCHANGED hostVars

NextReport == SuggestedScripts \/ SuggestedScriptsAgain \/ HasIssues

SpecReport == InitReport /\ [][NextReport]_vars

-----------------------------------------------------------------------------
(* recommend_hollow of analyze-for-print.py *)

VOLUME_THRESHOLD == 10          \* cm3
SIZE_THRESHOLD == 40            \* mm
WALL_THICKNESS_TENTHS == 15     \* WALL_THICKNESS = 1.5 mm, in tenths of a mm

\* one entry of the reasons list: the text with its placeholders, and the
\* numbers shown in them
Reason(text, shown) == [text |-> text, shown |-> shown]

\* format(x, ".1f") as a number of tenths: the nearest tenth of num / den
\* (a tie is decided by the binary digits of the float; the quantities
\* formatted here are never half way between two tenths)
Format1(x) == (20 * x.num + x.den) \div (2 * x.den)

VolumeExceeds == "Volume ({:.1f} cm3) exceeds 10.0 cm3"
MaxDimensionExceeds == "Max dimension ({:.1f} mm) exceeds 40.0 mm"
CouldNotCalculate == "Could not calculate volume"
NotManifold == "Model is not manifold/watertight - fix before hollowing"
SmallEnough == "Model is small enough to print solid"

\* the comparison changed: a quantity equal to the threshold exceeds it too
exceeds_or_equals(x, threshold) == x.num >= threshold * x.den

\* x > threshold for the fraction x = num / den, den > 0
exceeds(x, threshold) == x.num > threshold * x.den

\* the reasons list after the two threshold tests
threshold_reasons(volume_cm3, max_dim_mm) ==
    LET r1 == IF exceeds(volume_cm3, VOLUME_THRESHOLD)
              THEN <<Reason(VolumeExceeds, <<Format1(volume_cm3)>>)>>
              ELSE <<>>
        r2 == IF exceeds(max_dim_mm, SIZE_THRESHOLD)
              THEN <<Reason(MaxDimensionExceeds, <<Format1(max_dim_mm)>>)>>
              ELSE <<>>
    IN  r1 \o r2

\* the returned triple (recommendation, reasons, wall thickness)
Recommendation(name, reasons) ==
    [recommendation |-> name, reasons |-> reasons, wall |-> WALL_THICKNESS_TENTHS]

\* recommend_hollow changed: the manifold test comes before the None test
recommend_hollow_manifold_first(volume_cm3, max_dim_mm, manifold) ==
    IF ~manifold
    THEN Recommendation("FIX FIRST", <<Reason(NotManifold, <<>>)>>)
    ELSE IF volume_cm3.kind = "None"
    THEN Recommendation("UNKNOWN", <<Reason(CouldNotCalculate, <<>>)>>)
    ELSE LET reasons == threshold_reasons(volume_cm3, max_dim_mm)
         IN  IF reasons # <<>>
             THEN Recommendation("HOLLOW", reasons)
             ELSE Recommendation("SOLID", <<Reason(SmallEnough, <<>>)>>)

\* recommend_hollow changed: the manifold test comes after the threshold tests
recommend_hollow_thresholds_first(volume_cm3, max_dim_mm, manifold) ==
    IF volume_cm3.kind = "None"
    THEN Recommendation("UNKNOWN", <<Reason(CouldNotCalculate, <<>>)>>)
    ELSE LET reasons == threshold_reasons(volume_cm3, max_dim_mm)
         IN  IF reasons # <<>>
             THEN Recommendation("HOLLOW", reasons)
             ELSE IF ~manifold
             THEN Recommendation("FIX FIRST", <<Reason(NotManifold, <<>>)>>)
             ELSE Recommendation("SOLID", <<Reason(SmallEnough, <<>>)>>)

\* recommend_hollow changed: SOLID returns the reasons list it accumulated
recommend_hollow_solid_accumulated(volume_cm3, max_dim_mm, manifold) ==
    IF volume_cm3.kind = "None"
    THEN Recommendation("UNKNOWN", <<Reason(CouldNotCalculate, <<>>)>>)
    ELSE IF ~manifold
    THEN Recommendation("FIX FIRST", <<Reason(NotManifold, <<>>)>>)
    ELSE LET reasons == threshold_reasons(volume_cm3, max_dim_mm)
         IN  IF reasons # <<>>
             THEN Recommendation("HOLLOW", reasons)
             ELSE Recommendation("SOLID", reasons)

recommend_hollow(volume_cm3, max_dim_mm, manifold) ==
    IF volume_cm3.kind = "None"
    THEN Recommendation("UNKNOWN", <<Reason(CouldNotCalculate, <<>>)>>)
    ELSE IF ~manifold
    THEN Recommendation("FIX FIRST", <<Reason(NotManifold, <<>>)>>)
    ELSE LET reasons == threshold_reasons(volume_cm3, max_dim_mm)
         IN  IF reasons # <<>>
             THEN Recommendation("HOLLOW", reasons)
             ELSE Recommendation("SOLID", <<Reason(SmallEnough, <<>>)>>)

-----------------------------------------------------------------------------
(* Specification SpecHollow: recommend_hollow on the values main passes it *)

MaxDelta == 1        \* volumes and dimensions lie within MaxDelta steps of the thresholds

\* calculate_volume's return: None, zero, or within MaxDelta hundredths of
\* a cm3 of VOLUME_THRESHOLD
HollowVolumes ==
    {VolumeNone, volume_print3d(0)}
    \cup { volume_print3d(1000 * VOLUME_THRESHOLD + 10 * k) : k \in (0 - MaxDelta) .. MaxDelta }

\* dims['max']: zero, or within MaxDelta tenths of a mm of SIZE_THRESHOLD
HollowDims ==
    {Length(0, 1)}
    \cup { Length(10 * SIZE_THRESHOLD + k, 10) : k \in (0 - MaxDelta) .. MaxDelta }

InitHollow ==
    /\ mesh = EmptyMesh
    /\ has_print3d = TRUE
    /\ pc = "recommend"
    /\ issues \in { <<[MeshIssues EXCEPT !.non_manifold_edges = a,
                                         !.non_manifold_verts = b]>> :
                    a \in 0 .. MaxCount, b \in 0 .. MaxCount }
    /\ volume \in { <<v>> : v \in HollowVolumes }
    /\ scripts = <<>>
    /\ exc = ""
    /\ Idle
    /\ any_issues = <<>>
    /\ max_dim \in HollowDims
    /\ hollow = <<>>
    /\ HostIdle

\* recommendation, reasons, wall = recommend_hollow(volume, dims['max'], issues.is_manifold)
RecommendHollow ==
    /\ pc = "recommend"
    /\ hollow' = <<recommend_hollow(volume[1], max_dim, is_manifold(issues[1]))>>
    /\ pc' = "done"
    /\ UNCHANGED <<mesh, pending, visited, stack, island_count, pushes, adds, issues,
                   has_print3d, volume, scripts, exc, any_issues, max_dim>>
    /\ UNCHANGED hostVars

NextHollow == RecommendHollow

SpecHollow == InitHollow /\ [][NextHollow]_vars

-----------------------------------------------------------------------------
(* Specification SpecDiagnostics: the diagnostic functions analyze_mesh,
   check_intersections, calculate_volume and calculate_area called on one
   object, in any order *)

MaxDiagnostics == 3  \* at most this many diagnostic calls are made on the object
MaxPasses == 2       \* analyze_mesh is called at most this often
MaxSelected == 2     \* the intersect check selects at most this many faces

\* the objects diagnosed: the small base meshes, as they are and inside out
DiagnosticMeshes ==
    LET small == {EmptyMesh, Points, WireAndPoint, Tetra, TetraSliver, Fin, Cube}
    IN  small \cup { InvertAll(b) : b \in small }

Rotate(s, k) == [i \in 1 .. Len(s) |-> s[((i - 1 + k) % Len(s)) + 1]]

\* bm after bm.from_mesh(obj.data): a copy of the mesh data whose faces the
\* host hands out in the stored order, in the opposite order, or starting
\* from the second face
Traversals(m) ==
    IF m.faces = <<>> THEN {m}
    ELSE { Mesh(m.nv, m.co, m.wire, fs) :
             fs \in {m.faces, Reverse(m.faces), Rotate(m.faces, 1)} }

\* one call of analyze_mesh changed: the normals are recalculated on bm and
\* written back with bm.to_mesh(obj.data)
analyze_mesh_call_to_mesh(m, bm) ==
    [ result |-> analyze_mesh(bm),
      data   |-> InvertAll(m) ]

\* one call of analyze_mesh(obj) that traverses bm: what it returns, and
\* obj.data afterwards; bm is freed and never written back
analyze_mesh_call(m, bm) ==
    [ result |-> analyze_mesh(bm),
      data   |-> m ]

\* the faces print3d_check_intersect leaves selected: none, or the first k
Intersecting(m) ==
    { 1 .. k : k \in {0} \cup { j \in 2 .. MaxSelected : j <= Len(m.faces) } }

\* one return of check_intersections: the count returned, the mode and the
\* select flags it leaves, and the line whose host operator raised (0: none)
Checked_out(n, md, sel, line) == [returned |-> n, mode |-> md, select |-> sel, raised_at |-> line]

\* check_intersections changed: the except clause goes back to OBJECT mode
check_intersections_restoring(m, sel, present) ==
    { Checked_out(0, "OBJECT", sel, 207) }
    \cup (IF ~present THEN {}
          ELSE UNION { { Checked_out(0, "OBJECT", sel \cup S, 209),
                         Checked_out(0, "OBJECT", sel \cup S, 210),
                         Checked_out(0, "OBJECT", {}, 211),
                         Checked_out(0, "OBJECT", S, 212),
                         Checked_out(Cardinality(S), "OBJECT", S, 0) } :
                       S \in Intersecting(m) })

\* the returns of check_intersections(obj) entered in OBJECT mode with the
\* faces sel selected.  Without the add-on the operator of line 207 does not
\* exist and raises AttributeError.  With it, each host operator of the try
\* block either succeeds or raises RuntimeError, which returns 0 from where
\* the block stands: line 209 has entered EDIT mode, line 210 has cleared the
\* select flags, the check selects the faces S, line 212 is back in OBJECT
\* mode.
check_intersections(m, sel, present) ==
    { Checked_out(0, "OBJECT", sel, 207) }
    \cup (IF ~present THEN {}
          ELSE UNION { { Checked_out(0, "OBJECT", sel \cup S, 209),
                         Checked_out(0, "EDIT", sel \cup S, 210),
                         Checked_out(0, "EDIT", {}, 211),
                         Checked_out(0, "EDIT", S, 212),
                         Checked_out(Cardinality(S), "OBJECT", S, 0) } :
                       S \in Intersecting(m) })

\* a returned area: kind "float" is num / den in cm2, kind "None" is None
AreaNone == [kind |-> "None", num |-> 0, den |-> 1]

\* the values calculate_area(obj) can return: scene.print3d.area / 100, or
\* None when the operator raises
calculate_area(present) ==
    {AreaNone} \cup (IF present THEN { [kind |-> "float", num |-> 600, den |-> 100] } ELSE {})

InitDiagnostics ==
    /\ mesh \in DiagnosticMeshes
    /\ has_print3d \in BOOLEAN
    /\ pc = "diagnose"
    /\ issues = <<>>
    /\ volume = <<>>
    /\ scripts = <<>>
    /\ exc = ""
    /\ Idle
    /\ NoDecision
    /\ mode = "OBJECT"
    /\ select \in {{}, FaceIds(mesh)}
    /\ area = <<>>
    /\ intersections = <<>>
    /\ addons = {}
    /\ auto_enable = FALSE
    /\ scene = <<>>
    /\ summary = <<>>
    /\ log = <<>>
    /\ modifiers = <<>>
    /\ iter = <<>>

\* the number of diagnostic calls made on the object so far
Diagnosed == Len(issues) + Len(intersections) + Len(volume) + Len(area)

\* analyze_mesh(obj) once more
DiagnoseMesh ==
    /\ pc = "diagnose"
    /\ Diagnosed < MaxDiagnostics
    /\ Len(issues) < MaxPasses
    /\ \E bm \in Traversals(mesh) :
         LET c == analyze_mesh_call(mesh, bm)
         IN  /\ issues' = Append(issues, c.result.report)
             /\ mesh' = c.data
    /\ UNCHANGED <<pc, pending, visited, stack, island_count, pushes, adds,
                   has_print3d, volume, scripts, exc, any_issues, max_dim, hollow>>
    /\ UNCHANGED hostVars

\* check_intersections(obj)
DiagnoseIntersections ==
    /\ pc = "diagnose"
    /\ Diagnosed < MaxDiagnostics
    /\ intersections = <<>>
    /\ \E o \in check_intersections(mesh, select, has_print3d) :
         /\ intersections' = <<o.returned>>
         /\ mode' = o.mode
         /\ select' = o.select
    /\ UNCHANGED <<mesh, pc, pending, visited, stack, island_count, pushes, adds, issues,
                   has_print3d, volume, scripts, exc, any_issues, max_dim, hollow>>
    /\ UNCHANGED <<area, addons, auto_enable, scene, summary, log, modifiers, iter>>

\* calculate_volume(obj, use_print3d=has_print3d)
DiagnoseVolume ==
    /\ pc = "diagnose"
    /\ Diagnosed < MaxDiagnostics
    /\ volume = <<>>
    /\ \E v \in calculate_volume(mesh, has_print3d) : volume' = <<v>>
    /\ UNCHANGED <<mesh, pc, pending, visited, stack, island_count, pushes, adds, issues,
                   has_print3d, scripts, exc, any_issues, max_dim, hollow>>
    /\ UNCHANGED hostVars

\* calculate_area(obj)
DiagnoseArea ==
    /\ pc = "diagnose"
    /\ Diagnosed < MaxDiagnostics
    /\ area = <<>>
    /\ \E a \in calculate_area(has_print3d) : area' = <<a>>
    /\ UNCHANGED <<mesh, pc, pending, visited, stack, island_count, pushes, adds, issues,
                   has_print3d, volume, scripts, exc, any_issues, max_dim, hollow>>
    /\ UNCHANGED <<mode, select, intersections, addons, auto_enable,
                   scene, summary, log, modifiers, iter>>

NextDiagnostics == DiagnoseMesh \/ DiagnoseIntersections \/ DiagnoseVolume \/ DiagnoseArea

SpecDiagnostics == InitDiagnostics /\ [][NextDiagnostics]_vars

-----------------------------------------------------------------------------
(* Specification SpecMain: main of analyze-for-print.py up to the test for
   the Print3D add-on *)

MaxMeshes == 2       \* a scene holds at most this many mesh objects

\* the mesh objects a scene is made of
SceneMeshes == {Tetra, InvertAll(Tetra), TwoTetra, TetraSplitEdge}

\* get_mesh_objects() of a scene with at least one mesh
Scenes == UNION { [1 .. n -> SceneMeshes] : n \in 1 .. MaxMeshes }

\* the names ensure_print3d_addon looks for, and some other add-on
addon_names == {"bl_ext.blender_org.print3d_toolbox", "object_print3d_utils"}
AddonNames == addon_names \cup {"io_scene_gltf2"}

\* the parameters in the signature of ensure_print3d_addon
ensure_print3d_addon_params == {}

\* the body of ensure_print3d_addon()
ensure_print3d_addon(enabled) == \E addon_name \in addon_names : addon_name \in enabled

\* a Python call with the keyword arguments keywords of a function with the
\* parameters params: a keyword that is no parameter raises TypeError
CallRaises(params, keywords) == IF keywords \subseteq params THEN "" ELSE "TypeError"

InitMain ==
    /\ mesh = EmptyMesh
    /\ has_print3d = FALSE
    /\ pc = "main"
    /\ issues = <<>>
    /\ volume = <<>>
    /\ scripts = <<>>
    /\ exc = ""
    /\ Idle
    /\ NoDecision
    /\ mode = "OBJECT"
    /\ select = {}
    /\ area = <<>>
    /\ intersections = <<>>
    /\ addons \in SUBSET AddonNames
    /\ auto_enable \in BOOLEAN
    /\ scene \in Scenes
    /\ summary = <<>>
    /\ log = <<>>
    /\ modifiers = <<>>
    /\ iter = <<>>

\* has_print3d = ensure_print3d_addon(auto_enable=auto_enable)
MainEnsurePrint3d ==
    /\ pc = "main"
    /\ LET raised == CallRaises(ensure_print3d_addon_params, {"auto_enable"})
       IN  IF raised # ""
           THEN /\ exc' = raised
                /\ pc' = "crashed"
                /\ UNCHANGED has_print3d
           ELSE /\ has_print3d' = ensure_print3d_addon(addons)
                /\ pc' = "loop"
                /\ UNCHANGED exc
    /\ UNCHANGED <<mesh, pending, visited, stack, island_count, pushes, adds, issues,
                   volume, scripts, any_issues, max_dim, hollow>>
    /\ UNCHANGED hostVars

NextMain == MainEnsurePrint3d

SpecMain == InitMain /\ [][NextMain]_vars

-----------------------------------------------------------------------------
(* Specification SpecAnalysis: main of analyze-for-print.py from the mesh
   loop on, for either value of has_print3d *)

\* the extent of the vertex coordinates along one axis; 0 without vertices
Extent(m, axis) ==
    IF m.nv = 0 THEN 0
    ELSE LET xs == { m.co[v][axis] : v \in Verts(m) }
         IN  (CHOOSE hi \in xs : \A x \in xs : x <= hi)
             - (CHOOSE lo \in xs : \A x \in xs : lo <= x)

\* get_bounding_box_mm(obj)['max'], the object sitting untransformed in the world
get_bounding_box_mm(m) ==
    LET width == Extent(m, 1)
        depth == Extent(m, 2)
        height == Extent(m, 3)
        widest == IF width >= depth THEN width ELSE depth
    IN  Length(IF widest >= height THEN widest ELSE height, 1)

\* the assignment of line 156 changed: the count goes to another counter
assign_intersecting_faces_elsewhere(r, count) == [r EXCEPT !.zero_area_faces = count]

\* issues.intersecting_faces = count
assign_intersecting_faces(r, count) == [r EXCEPT !.intersecting_faces = count]

\* suggested[script] = desc for one script: a key already in the dict keeps
\* its place, a new one goes to the end
dict_set(keys, script) ==
    IF \E i \in DOMAIN keys : keys[i] = script THEN keys ELSE Append(keys, script)

\* the inner loop of the summary over one report's list
RECURSIVE dict_set_all(_, _)
dict_set_all(keys, list) ==
    IF list = <<>> THEN keys
    ELSE dict_set_all(dict_set(keys, Head(list)), Tail(list))

\* the keys of suggested after the loop over all_issues from report i on
RECURSIVE collect_suggested(_, _, _)
collect_suggested(keys, all_issues, i) ==
    IF i > Len(all_issues) THEN keys
    ELSE collect_suggested(dict_set_all(keys, suggested_scripts(all_issues[i])),
                           all_issues, i + 1)

SuggestedRepairs == "SUGGESTED REPAIRS:"
NoRepairsNeeded == "No repairs needed - model is print-ready!"

\* the summary printed: the heading and the scripts in the order of the dict
print_summary(all_issues) ==
    LET suggested == collect_suggested(<<>>, all_issues, 1)
    IN  [ printed   |-> IF suggested # <<>> THEN SuggestedRepairs ELSE NoRepairsNeeded,
          suggested |-> suggested ]

InitAnalysis ==
    /\ mesh = EmptyMesh
    /\ has_print3d \in BOOLEAN
    /\ pc = "loop"
    /\ issues = <<>>
    /\ volume = <<>>
    /\ scripts = <<>>
    /\ exc = ""
    /\ Idle
    /\ NoDecision
    /\ mode = "OBJECT"
    /\ select = {}
    /\ area = <<>>
    /\ intersections = <<>>
    /\ addons = {}
    /\ auto_enable = FALSE
    /\ scene \in Scenes
    /\ summary = <<>>
    /\ log = <<>>
    /\ modifiers = <<>>
    /\ iter = <<>>

\* for obj in meshes: the dimensions, the volume, the area and the analysis
\* of the next object; its report is appended to all_issues
MainMeasure ==
    /\ pc = "loop"
    /\ scene # <<>>
    /\ LET obj == Head(scene)
           c == analyze_mesh_call(obj, obj)
       IN  /\ mesh' = c.data
           /\ scene' = Tail(scene)
           /\ max_dim' = get_bounding_box_mm(obj)
           /\ \E v \in calculate_volume(obj, has_print3d) : volume' = <<v>>
           /\ IF has_print3d
              THEN \E a \in calculate_area(has_print3d) : area' = <<a>>
              ELSE UNCHANGED area
           /\ issues' = Append(issues, c.result.report)
           /\ select' \in {{}, FaceIds(obj)}
    /\ mode' = "OBJECT"
    /\ pc' = IF has_print3d THEN "intersect" ELSE "recommend"
    /\ UNCHANGED <<pending, visited, stack, island_count, pushes, adds, has_print3d,
                   scripts, exc, any_issues, hollow>>
    /\ UNCHANGED <<intersections, addons, auto_enable, summary, log, modifiers, iter>>

\* if has_print3d: issues.intersecting_faces = check_intersections(obj)
MainCheckIntersections ==
    /\ pc = "intersect"
    /\ \E o \in check_intersections(mesh, select, has_print3d) :
         /\ issues' = [issues EXCEPT
                         ![Len(issues)] = assign_intersecting_faces(issues[Len(issues)], o.returned)]
         /\ intersections' = <<o.returned>>
         /\ mode' = o.mode
         /\ select' = o.select
    /\ pc' = "recommend"
    /\ UNCHANGED <<mesh, pending, visited, stack, island_count, pushes, adds, has_print3d,
                   volume, scripts, exc, any_issues, max_dim, hollow>>
    /\ UNCHANGED <<area, addons, auto_enable, scene, summary, log, modifiers, iter>>

\* recommendation, reasons, wall = recommend_hollow(volume, dims['max'], issues.is_manifold)
MainRecommend ==
    /\ pc = "recommend"
    /\ hollow' = <<recommend_hollow(volume[1], max_dim, is_manifold(issues[Len(issues)]))>>
    /\ pc' = "loop"
    /\ UNCHANGED <<mesh, pending, visited, stack, island_count, pushes, adds, issues,
                   has_print3d, volume, scripts, exc, any_issues, max_dim>>
    /\ UNCHANGED hostVars

\* after the loop: the summary of the suggested repairs
MainSummary ==
    /\ pc = "loop"
    /\ scene = <<>>
    /\ summary' = <<print_summary(issues)>>
    /\ pc' = "done"
    /\ UNCHANGED <<mesh, pending, visited, stack, island_count, pushes, adds, issues,
                   has_print3d, volume, scripts, exc, any_issues, max_dim, hollow>>
    /\ UNCHANGED <<mode, select, area, intersections, addons, auto_enable,
                   scene, log, modifiers, iter>>

NextAnalysis == MainMeasure \/ MainCheckIntersections \/ MainRecommend \/ MainSummary

SpecAnalysis == InitAnalysis /\ [][NextAnalysis]_vars

-----------------------------------------------------------------------------
(* Specification SpecRepair: main of the repair scripts fix-normals.py,
   make-manifold.py and voxel-merge.py *)

RepairScripts == {"fix-normals", "make-manifold", "voxel-merge"}

\* one entry of the log: the helper called and the number of the object
Call(name, k) == [call |-> name, obj |-> k]

\* the mesh after bpy.ops.mesh.normals_make_consistent: the same faces, some
\* of them (up to MaxFlipped, or all) wound the other way
Rewound(m) ==
    { Variant(m, {}, flipped) :
        flipped \in { fl \in SUBSET FaceIds(m) :
                        Cardinality(fl) <= MaxFlipped \/ fl = FaceIds(m) } }

\* fix_normals(obj)
fix_normals(m) == Rewound(m)

\* make_manifold(obj) on an object without double vertices, holes or loose
\* geometry: what is left of it is the recalculation of the normals
make_manifold(m) == Rewound(m)

\* bpy.ops.object.join() of two objects: the second mesh's elements follow
\* the first's
Join(a, b) ==
    Mesh(a.nv + b.nv,
         a.co \o b.co,
         a.wire \cup { { v + a.nv : v \in e } : e \in b.wire },
         a.faces \o [i \in 1 .. Len(b.faces) |->
                       [k \in 1 .. Len(b.faces[i]) |-> b.faces[i][k] + a.nv]])

\* join_all_meshes() of a scene with at least one mesh
RECURSIVE join_all_meshes(_)
join_all_meshes(meshes) ==
    IF Len(meshes) = 1 THEN meshes[1]
    ELSE Join(meshes[1], join_all_meshes(Tail(meshes)))

\* voxel_remesh(obj, voxel_size): the host replaces the topology by a closed
\* surface of its own making
voxel_remesh(m) == {Tetra, Cube}

InitRepair ==
    /\ mesh = EmptyMesh
    /\ has_print3d = FALSE
    /\ pc \in RepairScripts
    /\ issues = <<>>
    /\ volume = <<>>
    /\ scripts = <<>>
    /\ exc = ""
    /\ Idle
    /\ NoDecision
    /\ mode = "OBJECT"
    /\ select = {}
    /\ area = <<>>
    /\ intersections = <<>>
    /\ addons = {}
    /\ auto_enable = FALSE
    /\ scene \in Scenes
    /\ summary = <<>>
    /\ log = <<>>
    /\ modifiers = <<>>
    /\ iter = <<>>

\* the object in hand has been repaired and not yet exported
ExportPending == log # <<>> /\ log[Len(log)].call # "export_stl"

\* the number of objects exported so far
Exported == Cardinality({ j \in DOMAIN log : log[j].call = "export_stl" })

\* fix-normals.py, for obj in meshes: fix_normals(obj)
RepairFixNormals ==
    /\ pc = "fix-normals"
    /\ scene # <<>>
    /\ ~ExportPending
    /\ mesh' \in fix_normals(Head(scene))
    /\ scene' = Tail(scene)
    /\ log' = Append(log, Call("fix_normals", Exported + 1))
    /\ UNCHANGED <<pc, pending, visited, stack, island_count, pushes, adds, issues,
                   has_print3d, volume, scripts, exc, any_issues, max_dim, hollow>>
    /\ UNCHANGED <<mode, select, area, intersections, addons, auto_enable,
                   summary, modifiers, iter>>

\* make-manifold.py, for obj in meshes: make_manifold(obj)
RepairMakeManifold ==
    /\ pc = "make-manifold"
    /\ scene # <<>>
    /\ ~ExportPending
    /\ mesh' \in make_manifold(Head(scene))
    /\ scene' = Tail(scene)
    /\ log' = Append(log, Call("make_manifold", Exported + 1))
    /\ UNCHANGED <<pc, pending, visited, stack, island_count, pushes, adds, issues,
                   has_print3d, volume, scripts, exc, any_issues, max_dim, hollow>>
    /\ UNCHANGED <<mode, select, area, intersections, addons, auto_enable,
                   summary, modifiers, iter>>

\* voxel-merge.py: obj = join_all_meshes(); obj = voxel_remesh(obj, voxel_size)
RepairVoxelMerge ==
    /\ pc = "voxel-merge"
    /\ scene # <<>>
    /\ mesh' \in voxel_remesh(join_all_meshes(scene))
    /\ scene' = <<>>
    /\ log' = log \o <<Call("join_all_meshes", 1), Call("voxel_remesh", 1)>>
    /\ UNCHANGED <<pc, pending, visited, stack, island_count, pushes, adds, issues,
                   has_print3d, volume, scripts, exc, any_issues, max_dim, hollow>>
    /\ UNCHANGED <<mode, select, area, intersections, addons, auto_enable,
                   summary, modifiers, iter>>

\* export_stl(filepath, selection_only=True) of the object just repaired;
\* after the last object the script is done
RepairExport ==
    /\ pc \in RepairScripts
    /\ ExportPending
    /\ log' = Append(log, Call("export_stl", Exported + 1))
    /\ pc' = IF scene = <<>> THEN "done" ELSE pc
    /\ UNCHANGED <<mesh, pending, visited, stack, island_count, pushes, adds, issues,
                   has_print3d, volume, scripts, exc, any_issues, max_dim, hollow>>
    /\ UNCHANGED <<mode, select, area, intersections, addons, auto_enable,
                   scene, summary, modifiers, iter>>

NextRepair == RepairFixNormals \/ RepairMakeManifold \/ RepairVoxelMerge \/ RepairExport

SpecRepair == InitRepair /\ [][NextRepair]_vars

-----------------------------------------------------------------------------
(* Specification SpecHollowMesh: hollow_mesh of mesh_repair.py on an object
   with any modifiers *)

MaxModifiers == 3    \* the object carries at most this many modifiers at the call

ModifierTypes == {"SOLIDIFY", "MIRROR", "SUBSURF"}

\* a modifier: its name and its type
Modifier(name, type) == [name |-> name, type |-> type]

\* the names of the modifiers on the object at the call, first to last
ModifierNames == <<"Modifier", "Modifier.001", "Modifier.002", "Modifier.003",
                   "Modifier.004", "Modifier.005">>

\* obj.modifiers at the call
ModifierStacks ==
    UNION { { [k \in 1 .. n |-> Modifier(ModifierNames[k], types[k])] : types \in [1 .. n -> ModifierTypes] } :
            n \in 0 .. MaxModifiers }

\* obj.modifiers.remove(mod)
modifiers_remove(mods, mod) == SelectSeq(mods, LAMBDA x : x # mod)

\* the iterator changed: it goes by position, as over a Python list, and
\* after a removal passes over the modifier that moved up
iterator_after_by_index(rest, removed) ==
    IF removed /\ rest # <<>> THEN Tail(rest) ELSE rest

\* what the iterator of "for mod in obj.modifiers" has still to yield after
\* the loop body has run on mod, rest being the modifiers that followed mod.
\* The iterator of a bpy collection steps on to the following element before
\* it hands mod to the loop body, so removing mod leaves it where it is.
iterator_after(rest, removed) == rest

\* the mesh after bpy.ops.object.modifier_apply of a Solidify modifier with
\* negative thickness and rim: the surface and, facing it, a second one
solidify_apply(m) == IF m.nv = 0 THEN m ELSE Join(m, InvertAll(m))

InitHollowMesh ==
    /\ mesh \in {Tetra, Cube}
    /\ has_print3d = FALSE
    /\ pc = "hm_for"
    /\ issues = <<>>
    /\ volume = <<>>
    /\ scripts = <<>>
    /\ exc = ""
    /\ Idle
    /\ NoDecision
    /\ mode = "OBJECT"
    /\ select = {}
    /\ area = <<>>
    /\ intersections = <<>>
    /\ addons = {}
    /\ auto_enable = FALSE
    /\ scene = <<>>
    /\ summary = <<>>
    /\ log = <<>>
    /\ modifiers \in ModifierStacks
    /\ iter = modifiers

\* for mod in obj.modifiers: if mod.type == 'SOLIDIFY': obj.modifiers.remove(mod)
HollowMeshFor ==
    /\ pc = "hm_for"
    /\ iter # <<>>
    /\ LET mod == Head(iter)
           removed == mod.type = "SOLIDIFY"
       IN  /\ modifiers' = IF removed THEN modifiers_remove(modifiers, mod) ELSE modifiers
           /\ iter' = iterator_after(Tail(iter), removed)
    /\ UNCHANGED <<mesh, pc, pending, visited, stack, island_count, pushes, adds, issues,
                   has_print3d, volume, scripts, exc, any_issues, max_dim, hollow>>
    /\ UNCHANGED <<mode, select, area, intersections, addons, auto_enable,
                   scene, summary, log>>

\* the loop is over: solidify = obj.modifiers.new(name="Hollow", type='SOLIDIFY')
HollowMeshNew ==
    /\ pc = "hm_for"
    /\ iter = <<>>
    /\ modifiers' = Append(modifiers, Modifier("Hollow", "SOLIDIFY"))
    /\ pc' = "hm_apply"
    /\ UNCHANGED <<mesh, pending, visited, stack, island_count, pushes, adds, issues,
                   has_print3d, volume, scripts, exc, any_issues, max_dim, hollow>>
    /\ UNCHANGED <<mode, select, area, intersections, addons, auto_enable,
                   scene, summary, log, iter>>

\* bpy.ops.object.modifier_apply(modifier=solidify.name); fix_normals(obj)
HollowMeshApply ==
    /\ pc = "hm_apply"
    /\ modifiers' = SelectSeq(modifiers, LAMBDA x : x.name # "Hollow")
    /\ mesh' \in fix_normals(solidify_apply(mesh))
    /\ pc' = "done"
    /\ UNCHANGED <<pending, visited, stack, island_count, pushes, adds, issues,
                   has_print3d, volume, scripts, exc, any_issues, max_dim, hollow>>
    /\ UNCHANGED <<mode, select, area, intersections, addons, auto_enable,
                   scene, summary, log, iter>>

NextHollowMesh == HollowMeshFor \/ HollowMeshNew \/ HollowMeshApply

SpecHollowMesh == InitHollowMesh /\ [][NextHollowMesh]_vars

-----------------------------------------------------------------------------
(* Definitions used to state the properties *)

\* the vertices joined to a vertex of S by a chain of edges
RECURSIVE Connected(_, _)
Connected(m, S) ==
    LET T == S \cup { w \in Verts(m) : \E u \in S : {u, w} \in Edges(m) }
    IN  IF T = S THEN S ELSE Connected(m, T)

\* the connected components of the vertex-edge graph
Components(m) == { Connected(m, {v}) : v \in Verts(m) }

Reported == issues # <<>>

AllZero(r) ==
    /\ r.non_manifold_edges = 0
    /\ r.non_manifold_verts = 0
    /\ r.loose_geometry = 0
    /\ r.flipped_normals = 0
    /\ r.intersecting_faces = 0
    /\ r.zero_area_faces = 0

\* m is the cube with exactly one of its six quads deleted (any winding)
CubeMinusOneFace(m) ==
    /\ m.nv = Cube.nv /\ m.co = Cube.co /\ m.wire = {}
    /\ \E i \in FaceIds(Cube) :
         { FaceEdges(m.faces[k]) : k \in FaceIds(m) }
           = { FaceEdges(Cube.faces[j]) : j \in FaceIds(Cube) \ {i} }

\* the faces whose normal has a strictly positive dot product with the vector
\* from their centroid to the mean of all face centroids
Flagged(m) == { i \in FaceIds(m) : points_to_center(m, center(m), i) }

\* which side of face i's plane vertex v lies on: > 0 on the normal's side
Side(m, i, v) == Dot(AreaVector2(m, m.faces[i]), VSub(m.co[v], m.co[m.faces[i][1]]))

\* a closed convex polyhedron without a degenerate face: one piece, every
\* edge between exactly two faces, every face planar with the whole mesh on
\* one side of it
ClosedConvex(m) ==
    /\ Len(m.faces) >= 4
    /\ Cardinality(Components(m)) = 1
    /\ \A e \in Edges(m) : EdgeFaceCount(m, e) = 2
    /\ \A i \in FaceIds(m) :
         /\ AreaVector2(m, m.faces[i]) # Zero3
         /\ \/ \A v \in Verts(m) : Side(m, i, v) <= 0
            \/ \A v \in Verts(m) : Side(m, i, v) >= 0

AllOutward(m) == \A i \in FaceIds(m) : \A v \in Verts(m) : Side(m, i, v) <= 0
AllInward(m) == \A i \in FaceIds(m) : \A v \in Verts(m) : Side(m, i, v) >= 0

\* the faces of m from face i on that are not degenerate
RECURSIVE ProperFaces(_, _)
ProperFaces(m, i) ==
    IF i > Len(m.faces) THEN <<>>
    ELSE (IF area_below_threshold(m, m.faces[i]) THEN <<>> ELSE <<m.faces[i]>>)
         \o ProperFaces(m, i + 1)

\* m with its degenerate faces left out
WithoutDegenerate(m) == Mesh(m.nv, m.co, m.wire, ProperFaces(m, 1))

Sign(x) == IF x < 0 THEN -1 ELSE IF x > 0 THEN 1 ELSE 0

NoDuplicates(q) == \A i, j \in DOMAIN q : q[i] = q[j] => i = j

\* q is t with some elements left out
RECURSIVE IsSubsequence(_, _)
IsSubsequence(q, t) ==
    IF q = <<>> THEN TRUE
    ELSE IF t = <<>> THEN FALSE
    ELSE IF Head(q) = Head(t) THEN IsSubsequence(Tail(q), Tail(t))
    ELSE IsSubsequence(q, Tail(t))

Precedence == <<"fix-normals", "make-manifold", "voxel-merge">>

-----------------------------------------------------------------------------
(* Properties *)

\* C1: whatever the order in which the vertices and each vertex's edges are
\* iterated, count_islands returns the number of connected components of the
\* vertex-edge graph, a vertex without edges being a component of its own;
\* the run in index order returns the same number.
C1_IslandsAreComponents ==
    pc = "ci_done" =>
        /\ island_count = Cardinality(Components(mesh))
        /\ count_islands(mesh) = island_count

C1_Witness ==
    /\ pc = "ci_done"
    /\ mesh.nv = 4
    /\ island_count = 2
    /\ \E v \in Verts(mesh) : Neighbours(mesh, v) = {}

C4_EmptyMeshVolumeUnavailable ==
    (volume # <<>> /\ (mesh.nv = 0 \/ mesh.faces = <<>>)) => volume[1].kind = "None"

\* C5: non_manifold_edges is the number of edges whose incident-face count is
\* not exactly 2; a cube with one quad removed has 4 of them and is not
\* manifold.
C5_NonManifoldEdges ==
    Reported =>
        /\ issues[1].non_manifold_edges
             = Cardinality({ e \in Edges(mesh) : EdgeFaceCount(mesh, e) # 2 })
        /\ CubeMinusOneFace(mesh) =>
             /\ issues[1].non_manifold_edges = 4
             /\ ~is_manifold(issues[1])

C5_Witness ==
    /\ Reported
    /\ CubeMinusOneFace(mesh)
    /\ issues[1].non_manifold_edges = 4

\* C6: with k the number of flagged faces and n the number of faces,
\* flipped_normals is k when k > 0.10 * n strictly and 0 otherwise, also
\* when k is exactly a tenth of n.
C6_FlippedRatio ==
    Reported =>
        LET k == Cardinality(Flagged(mesh))
            n == Len(mesh.faces)
        IN  issues[1].flipped_normals = IF 10 * k > n THEN k ELSE 0

C6_Witness ==
    /\ Reported
    /\ Len(mesh.faces) = 10
    /\ Cardinality(Flagged(mesh)) = 1
    /\ issues[1].flipped_normals = 0

\* C7: on a closed convex mesh without degenerate face, flipped_normals is 0
\* when every normal points outward, and is the number of faces (so > 0) when
\* the winding of every face is inverted.
C7_ConvexOrientation ==
    (Reported /\ ClosedConvex(mesh)) =>
        /\ AllOutward(mesh) => issues[1].flipped_normals = 0
        /\ AllInward(mesh) => /\ issues[1].flipped_normals = Len(mesh.faces)
                              /\ issues[1].flipped_normals > 0

C7_Witness ==
    /\ Reported
    /\ ClosedConvex(mesh)
    /\ AllInward(mesh)
    /\ Len(mesh.faces) = 6
    /\ issues[1].flipped_normals = 6

\* C8: the orientation check skips every degenerate face: the reported
\* flipped_normals is the one of the mesh without its degenerate faces (they
\* are not in the centroid mean, the flagged count or the total), while
\* zero_area_faces still counts them.
C8_DegenerateFacesSkipped ==
    Reported =>
        /\ issues[1].flipped_normals = flipped_normals_check(WithoutDegenerate(mesh)).value
        /\ issues[1].zero_area_faces
             = Len(mesh.faces) - Len(WithoutDegenerate(mesh).faces)

\* C9 as stated: the bmesh volume is the absolute value of the raw signed
\* sum, and the raw sign is preserved in what the caller receives.
C9_RawSignPreserved ==
    (volume # <<>> /\ volume[1].via = "bmesh") =>
        /\ Abs(volume[1].num) = Abs(SignedVolume6(mesh, 1))
        /\ Sign(volume[1].num) = Sign(SignedVolume6(mesh, 1))

\* C9 as amended: the bmesh volume is the absolute value of the raw signed
\* sum over 1000 and is all the caller receives: it is never negative, and
\* inverting the winding of every face returns the same value.
C9_VolumeIsAbsolute ==
    (volume # <<>> /\ volume[1].via = "bmesh") =>
        /\ volume[1].kind = "float"
        /\ volume[1].num = Abs(SignedVolume6(mesh, 1))
        /\ volume[1].den = 6 * 1000
        /\ volume[1] = volume_fallback(InvertAll(mesh))

C9_Witness ==
    /\ volume # <<>>
    /\ volume[1].via = "bmesh"
    /\ SignedVolume6(mesh, 1) < 0
    /\ \A e \in Edges(mesh) : EdgeFaceCount(mesh, e) = 2
    /\ volume[1].num > 0

\* C10: suggested_scripts names no script twice and lists the scripts in the
\* order fix-normals, make-manifold, voxel-merge.
C10_NoDuplicateFixedOrder ==
    scripts # <<>> =>
        /\ NoDuplicates(scripts[1])
        /\ IsSubsequence(scripts[1], Precedence)

C10_Witness ==
    /\ scripts # <<>>
    /\ scripts[1] = Precedence
    /\ issues[1].intersecting_faces > 0
    /\ issues[1].island_count > 1

\* the script x is in the list q
Contains(q, x) == \E i \in DOMAIN q : q[i] = x

\* C11: suggested_scripts contains fix-normals exactly when flipped_normals
\* is above 0, whatever the other counters are.
C11_FixNormalsIff ==
    \A i \in DOMAIN scripts :
        Contains(scripts[i], "fix-normals") <=> issues[1].flipped_normals > 0

C11_Witness ==
    /\ scripts # <<>>
    /\ scripts[1] = <<"fix-normals">>
    /\ issues[1].zero_area_faces > 0
    /\ issues[1].island_count = 0

\* C12: suggested_scripts contains make-manifold exactly when one of
\* non_manifold_edges, non_manifold_verts, loose_geometry is above 0; a report
\* with only loose_geometry nonzero gets it although is_manifold is true.
C12_MakeManifoldIff ==
    \A i \in DOMAIN scripts :
        Contains(scripts[i], "make-manifold")
            <=> \/ issues[1].non_manifold_edges > 0
                \/ issues[1].non_manifold_verts > 0
                \/ issues[1].loose_geometry > 0

C12_Witness ==
    /\ scripts # <<>>
    /\ issues[1] = [MeshIssues EXCEPT !.loose_geometry = 1]
    /\ is_manifold(issues[1])
    /\ scripts[1] = <<"make-manifold">>

\* C13: suggested_scripts contains voxel-merge exactly when
\* intersecting_faces is above 0 or island_count is above 1; island_count 0
\* or 1 without intersecting faces never gives it.
C13_VoxelMergeIff ==
    \A i \in DOMAIN scripts :
        Contains(scripts[i], "voxel-merge")
            <=> (issues[1].intersecting_faces > 0 \/ issues[1].island_count > 1)

C13_Witness ==
    /\ scripts # <<>>
    /\ issues[1].island_count = 0
    /\ issues[1].intersecting_faces = 0
    /\ issues[1].flipped_normals > 0
    /\ ~Contains(scripts[1], "voxel-merge")

\* C14: however often suggested_scripts is called on a report, every call
\* returns the same sequence and no call changes a counter of the report.
C14_PureIdempotent ==
    /\ [](\A i, j \in DOMAIN scripts : scripts[i] = scripts[j])
    /\ [][issues # <<>> => issues' = issues]_vars

C14_Witness ==
    /\ Len(scripts) = MaxCalls
    /\ scripts[1] = Precedence
    /\ scripts[MaxCalls] = Precedence

\* C15: on a report without issues (has_issues false) suggested_scripts
\* returns the empty sequence.
C15_NoIssuesNoScripts ==
    \A i \in DOMAIN scripts : ~has_issues(issues[1]) => scripts[i] = <<>>

C15_Witness ==
    /\ scripts = << <<>> >>
    /\ ~has_issues(issues[1])
    /\ issues[1].island_count = 0

\* C16: has_issues is true exactly when one of the six counters is nonzero
\* or island_count is above 1; island_count 0 or 1 alone does not make it
\* true.
C16_HasIssuesIff ==
    any_issues # <<>> =>
        (any_issues[1] <=> (~AllZero(issues[1]) \/ issues[1].island_count > 1))

C16_Witness ==
    /\ any_issues = <<FALSE>>
    /\ AllZero(issues[1])
    /\ issues[1].island_count = 1

-----------------------------------------------------------------------------
(* recommend_hollow *)

\* the texts of a reasons list, in order
Texts(reasons) == [i \in DOMAIN reasons |-> reasons[i].text]

\* the argument values of the call of recommend_hollow
VolumeKnown == volume[1].kind = "float"
VolumeOver == volume[1].num > VOLUME_THRESHOLD * volume[1].den
DimOver == max_dim.num > SIZE_THRESHOLD * max_dim.den
ManifoldFlag == /\ issues[1].non_manifold_edges = 0
                /\ issues[1].non_manifold_verts = 0

\* C17: whenever the volume is None, recommend_hollow returns UNKNOWN with the
\* reason that the volume could not be calculated, whatever the maximum
\* dimension and the manifold flag are: the None test comes before the
\* manifold test.
C17_NoneVolumeUnknown ==
    (hollow # <<>> /\ ~VolumeKnown)
        => /\ hollow[1].recommendation = "UNKNOWN"
           /\ Texts(hollow[1].reasons) = <<CouldNotCalculate>>

C17_Witness ==
    /\ hollow # <<>>
    /\ ~VolumeKnown
    /\ ~ManifoldFlag
    /\ DimOver
    /\ hollow[1].recommendation = "UNKNOWN"

\* C18: whenever the volume is known and the mesh is not manifold,
\* recommend_hollow returns FIX FIRST, however large the volume and the
\* maximum dimension are.
C18_NotManifoldFixFirst ==
    (hollow # <<>> /\ VolumeKnown /\ ~ManifoldFlag)
        => /\ hollow[1].recommendation = "FIX FIRST"
           /\ Texts(hollow[1].reasons) = <<NotManifold>>

C18_Witness ==
    /\ hollow # <<>>
    /\ VolumeKnown
    /\ VolumeOver
    /\ DimOver
    /\ ~ManifoldFlag
    /\ hollow[1].recommendation = "FIX FIRST"

\* C19: for a known volume and a manifold mesh, recommend_hollow returns HOLLOW
\* exactly when volume > 10 cm3 or max dimension > 40 mm, both strict, and
\* SOLID otherwise; volume exactly 10.0 with dimension exactly 40.0 gives
\* SOLID; the HOLLOW reasons have one entry per exceeded threshold, the
\* volume reason first.
C19_StrictThresholds ==
    (hollow # <<>> /\ VolumeKnown /\ ManifoldFlag)
        => /\ hollow[1].recommendation = IF VolumeOver \/ DimOver THEN "HOLLOW" ELSE "SOLID"
           /\ (VolumeOver \/ DimOver)
                => Texts(hollow[1].reasons) =
                       (IF VolumeOver THEN <<VolumeExceeds>> ELSE <<>>)
                       \o (IF DimOver THEN <<MaxDimensionExceeds>> ELSE <<>>)
           /\ (/\ volume[1].num = VOLUME_THRESHOLD * volume[1].den
               /\ max_dim.num = SIZE_THRESHOLD * max_dim.den)
                => hollow[1].recommendation = "SOLID"

C19_Witness ==
    /\ hollow # <<>>
    /\ VolumeKnown
    /\ ManifoldFlag
    /\ volume[1].num = VOLUME_THRESHOLD * volume[1].den
    /\ max_dim.num = SIZE_THRESHOLD * max_dim.den
    /\ hollow[1].recommendation = "SOLID"

\* C20: every call of recommend_hollow returns one of UNKNOWN, FIX FIRST,
\* HOLLOW, SOLID, with a non-empty list of reasons and the wall thickness
\* 1.5 mm.
C20_FourOutcomes ==
    hollow # <<>>
        => /\ hollow[1].recommendation \in {"UNKNOWN", "FIX FIRST", "HOLLOW", "SOLID"}
           /\ hollow[1].reasons # <<>>
           /\ hollow[1].wall = 15      \* tenths of a mm

C20_Witness ==
    /\ hollow # <<>>
    /\ hollow[1].recommendation = "HOLLOW"
    /\ Len(hollow[1].reasons) = 2
    /\ hollow[1].wall = 15      \* tenths of a mm

-----------------------------------------------------------------------------
(* The diagnostic functions on one object *)

\* C21: analyze_mesh run twice on an unmodified mesh returns two reports with
\* the same value in every counter, whichever order each pass traverses the
\* faces in; the first pass leaves nothing behind that changes the second.
C21_PassesAgree ==
    \A i, j \in DOMAIN issues : issues[i] = issues[j]

C21_Witness ==
    /\ Len(issues) = 2
    /\ intersections = <<>>
    /\ mesh = InvertAll(TetraSliver)
    /\ issues[2].flipped_normals > 0
    /\ issues[2].zero_area_faces = 1

\* C25 as stated: no call of a diagnostic function changes the object's mesh
\* data, the select flags of its faces included.
C25_MeshDataUntouched ==
    [][mesh' = mesh /\ select' = select]_vars

\* C25, amended: no call of a diagnostic function changes the vertices, edges
\* or faces of the object's mesh data; the select flags of the faces change
\* only in a call of check_intersections.
C25_GeometryUntouched ==
    [][/\ mesh' = mesh
       /\ select' # select => intersections' # intersections]_vars

C25_Witness ==
    /\ mesh = Cube
    /\ Len(issues) = 1
    /\ volume # <<>>
    /\ intersections = <<2>>
    /\ select = {1, 2}

\* C27: check_intersections leaves the object in OBJECT mode on every return
\* path, the paths on which a host operator raises and 0 is returned included.
C27_ObjectModeOnReturn ==
    intersections # <<>> => mode = "OBJECT"

-----------------------------------------------------------------------------
(* count_islands: termination and cost *)

\* the number of edges at vertex v
Degree(m, v) == Cardinality(LinkEdges(m, v))

RECURSIVE DegreeSum(_, _)
DegreeSum(m, v) == IF v > m.nv THEN 0 ELSE Degree(m, v) + DegreeSum(m, v + 1)

\* C26: count_islands terminates on every finite mesh; when it returns every
\* vertex has been added to visited exactly once (as many calls of
\* visited.add as there are vertices, and no vertex outside visited), the
\* stack is empty, and the number of pushes is at most the number of
\* vertices plus the sum of the vertex degrees.
C26_TerminatesWithinBound ==
    /\ <>(pc = "ci_done")
    /\ [](pc = "ci_done" => /\ visited = Verts(mesh)
                            /\ adds = mesh.nv
                            /\ stack = <<>>
                            /\ pushes <= mesh.nv + DegreeSum(mesh, 1))

C26_Witness ==
    /\ pc = "ci_done"
    /\ mesh.nv = MaxVerts
    /\ Cardinality(Edges(mesh)) >= MaxVerts
    /\ island_count = 1
    /\ adds = MaxVerts
    /\ pushes > MaxVerts

-----------------------------------------------------------------------------
(* analyze-for-print *)

\* C24: with or without the Print3D add-on, the analyze-for-print run on a
\* scene with at least one mesh goes on to the per-mesh analysis and ends
\* without an unhandled error; without the add-on, intersecting_faces is 0
\* and no area is computed.
C24_DegradesGracefully ==
    /\ exc = ""
    /\ pc # "main" => pc \in {"loop", "intersect", "recommend", "done"}
    /\ ~has_print3d => /\ area = <<>>
                       /\ \A i \in DOMAIN issues : issues[i].intersecting_faces = 0

-----------------------------------------------------------------------------
(* The repair scripts *)

RepairCalls == {"fix_normals", "make_manifold", "voxel_remesh"}
DiagnosticCalls == {"analyze_mesh", "check_intersections", "calculate_volume", "calculate_area"}

\* C23: in every repair run, each call of a mutating repair operation on a
\* mesh is followed, before that mesh is exported, by a re-run of the
\* diagnostic functions on the repaired mesh.
C23_DiagnosedBeforeExport ==
    \A j \in DOMAIN log :
        log[j].call = "export_stl"
            => \A r \in 1 .. j - 1 :
                   (log[r].call \in RepairCalls /\ log[r].obj = log[j].obj)
                       => \E d \in r + 1 .. j - 1 :
                              log[d].call \in DiagnosticCalls /\ log[d].obj = log[j].obj

-----------------------------------------------------------------------------
(* hollow_mesh *)

\* C28: whatever modifiers the object carries at the call, SOLIDIFY ones next
\* to each other included, when hollow_mesh applies its 'Hollow' modifier
\* that is the only SOLIDIFY modifier on the object, and up to then no
\* modifier of another type is removed or moved.
C28_OnlyHollowSolidifies ==
    /\ [](pc = "hm_apply"
            => \A k \in DOMAIN modifiers :
                   modifiers[k].type = "SOLIDIFY" => modifiers[k].name = "Hollow")
    /\ [][pc = "hm_for"
            => SelectSeq(modifiers', LAMBDA x : x.type # "SOLIDIFY")
                   = SelectSeq(modifiers, LAMBDA x : x.type # "SOLIDIFY")]_vars

C28_Witness ==
    /\ pc = "hm_apply"
    /\ Len(modifiers) = 2
    /\ modifiers[1] = Modifier(ModifierNames[3], "MIRROR")
    /\ modifiers[2].name = "Hollow"

=============================================================================
